---- MODULE Spec2Model ----
(***************************************************************************)
(* Diagnostic Test Generator API (src/main.py).                            *)
(*                                                                         *)
(* A POST /generate-test request is validated, a prompt is built, the      *)
(* completion API is called once, the completion text is cleaned of        *)
(* Markdown fences, decoded as JSON and assembled into a                   *)
(* DiagnosticTestResponse.  GET /health reports whether the credential is  *)
(* configured.                                                             *)
(*                                                                         *)
(* Text is a sequence of one-character strings, so that strip, startswith, *)
(* endswith, slicing and the JSON decoder work on characters as the code   *)
(* does.  A TLA+ string literal cannot hold the grave accent (U+0060), so  *)
(* that one character is written Backtick.                                 *)
(***************************************************************************)
EXTENDS Integers, Sequences, FiniteSets, TLC

Backtick == "BACKTICK"

\* ------------------------------------------------------------------ text

\* str.isspace() for the characters a TLA+ string can name.
IsSpace(c) == c \in {" ", "\t", "\n", "\r", "\f"}

RECURSIVE lstrip(_)
lstrip(s) ==
  IF s # << >> /\ IsSpace(Head(s)) THEN lstrip(Tail(s)) ELSE s

RECURSIVE rstrip(_)
rstrip(s) ==
  IF s # << >> /\ IsSpace(s[Len(s)]) THEN rstrip(SubSeq(s, 1, Len(s) - 1)) ELSE s

\* str.strip(): leading and trailing whitespace removed.
strip(s) == rstrip(lstrip(s))

\* str.startswith(prefix)
startswith(s, prefix) ==
  Len(prefix) <= Len(s) /\ SubSeq(s, 1, Len(prefix)) = prefix

\* str.endswith(suffix)
endswith(s, suffix) ==
  Len(suffix) <= Len(s) /\ SubSeq(s, Len(s) - Len(suffix) + 1, Len(s)) = suffix

\* s[n:]
SliceFrom(s, n) == SubSeq(s, n + 1, Len(s))

\* s[:-n]
SliceDropLast(s, n) == SubSeq(s, 1, Len(s) - n)

FenceJson == <<Backtick, Backtick, Backtick, "j", "s", "o", "n">>
Fence == <<Backtick, Backtick, Backtick>>

\* A cleaner that knows only the ```json marker.
RemoveLeadingFenceJsonOnly(content) ==
  IF startswith(content, FenceJson) THEN SliceFrom(content, 7) ELSE content

\* The two tests for a leading marker are both plain `if`s: the second one
\* sees the text the first one left.
RemoveLeadingFence(content) ==
  LET c1 == IF startswith(content, FenceJson) THEN SliceFrom(content, 7) ELSE content
  IN  IF startswith(c1, Fence) THEN SliceFrom(c1, 3) ELSE c1

RemoveTrailingFence(content) ==
  IF endswith(content, Fence) THEN SliceDropLast(content, 3) ELSE content

\* Lines 126-135: content.strip(), the fence removal, content.strip().
CleanContent(raw) ==
  strip(RemoveTrailingFence(RemoveLeadingFence(strip(raw))))

\* ----------------------------------------------------------- JSON values

\* A decoded JSON value, tagged with the name of its Python type.  Every value
\* has the same fields: s (a str's text, a float's lexeme), n (an int's value,
\* a bool as 0/1), items (a list's elements, a dict's values) and keys (a
\* dict's keys, in the order of the text).
JV(k, s, n, items, keys) == [k |-> k, s |-> s, n |-> n, items |-> items, keys |-> keys]
JNone == JV("NoneType", << >>, 0, << >>, << >>)
JBool(b) == JV("bool", << >>, IF b THEN 1 ELSE 0, << >>, << >>)
JInt(n) == JV("int", << >>, n, << >>, << >>)
JFloat(lexeme) == JV("float", lexeme, 0, << >>, << >>)
JStr(s) == JV("str", s, 0, << >>, << >>)
JList(items) == JV("list", << >>, 0, items, << >>)
JDict(keys, vals) == JV("dict", << >>, 0, vals, keys)

\* dict lookup: a key written twice keeps its last value.
HasKey(d, key) == \E i \in 1..Len(d.keys) : d.keys[i] = key
Lookup(d, key) ==
  d.items[CHOOSE i \in 1..Len(d.keys) :
            d.keys[i] = key /\ \A j \in (i + 1)..Len(d.keys) : d.keys[j] # key]

\* ---------------------------------------------------------- json.loads

Lit_null == <<"n", "u", "l", "l">>
Lit_true == <<"t", "r", "u", "e">>
Lit_false == <<"f", "a", "l", "s", "e">>
Lit_NaN == <<"N", "a", "N">>
Lit_Infinity == <<"I", "n", "f", "i", "n", "i", "t", "y">>
Lit_NegInfinity == <<"-", "I", "n", "f", "i", "n", "i", "t", "y">>

Digits == <<"0", "1", "2", "3", "4", "5", "6", "7", "8", "9">>
IsDigit(c) == \E d \in 1..10 : Digits[d] = c
DigitVal(c) == (CHOOSE d \in 1..10 : Digits[d] = c) - 1

\* The end of text, where no character is.
EOF == ""
At(s, i) == IF i >= 1 /\ i <= Len(s) THEN s[i] ELSE EOF
Matches(s, i, lit) == i + Len(lit) - 1 <= Len(s) /\ SubSeq(s, i, i + Len(lit) - 1) = lit

\* The decoder's whitespace: space, tab, line feed, carriage return.
IsJsonSpace(c) == c \in {" ", "\t", "\n", "\r"}

RECURSIVE SkipWs(_, _)
SkipWs(s, i) == IF IsJsonSpace(At(s, i)) THEN SkipWs(s, i + 1) ELSE i

RECURSIVE DigitsEnd(_, _)
DigitsEnd(s, i) == IF IsDigit(At(s, i)) THEN DigitsEnd(s, i + 1) ELSE i

RECURSIVE Atoi(_)
Atoi(ds) == IF ds = << >> THEN 0 ELSE 10 * Atoi(SubSeq(ds, 1, Len(ds) - 1)) + DigitVal(ds[Len(ds)])

\* The result of a scanner: the value and the index after it, or the decoder's
\* message.
Scanned(val, end) == [ok |-> TRUE, val |-> val, end |-> end, err |-> ""]
ScanError(msg) == [ok |-> FALSE, val |-> JNone, end |-> 0, err |-> msg]

\* NUMBER_RE, (-?(?:0|[1-9]\d*))(\.\d+)?([eE][-+]?\d+)?, matched at i: the
\* index after the integer part (0: no match), the fraction and the exponent.
NumberMatch(s, i) ==
  LET j0 == IF At(s, i) = "-" THEN i + 1 ELSE i
      j1 == IF At(s, j0) = "0" THEN j0 + 1
            ELSE IF IsDigit(At(s, j0)) THEN DigitsEnd(s, j0 + 1)
            ELSE 0
      j2 == IF j1 # 0 /\ At(s, j1) = "." /\ IsDigit(At(s, j1 + 1))
            THEN DigitsEnd(s, j1 + 2) ELSE j1
      k  == IF At(s, j2 + 1) \in {"+", "-"} THEN j2 + 2 ELSE j2 + 1
      j3 == IF j1 # 0 /\ At(s, j2) \in {"e", "E"} /\ IsDigit(At(s, k))
            THEN DigitsEnd(s, k + 1) ELSE j2
  IN  [int_start |-> j0, int_end |-> j1, end |-> j3]

ScanNumber(s, i) ==
  LET m == NumberMatch(s, i)
  IN  IF m.end = m.int_end
      THEN Scanned(JInt((IF m.int_start = i THEN 1 ELSE -1)
                          * Atoi(SubSeq(s, m.int_start, m.int_end - 1))), m.end)
      ELSE Scanned(JFloat(SubSeq(s, i, m.end - 1)), m.end)

\* The backslash escapes of a JSON string, for the characters a TLA+ string
\* can name (\b and \uXXXX are outside the alphabet the model draws from).
IsEscape(c) == c \in {"\"", "\\", "/", "n", "r", "t", "f"}
Unescape(c) ==
  CASE c = "n" -> "\n" [] c = "r" -> "\r" [] c = "t" -> "\t" [] c = "f" -> "\f"
    [] OTHER -> c

\* py_scanstring from the character after the opening quote; strict mode
\* refuses control characters.
RECURSIVE ScanString(_, _, _)
ScanString(s, i, acc) ==
  LET c == At(s, i)
  IN  CASE c = EOF -> ScanError("Unterminated string starting at")
        [] c = "\"" -> Scanned(JStr(acc), i + 1)
        [] c \in {"\n", "\r", "\t", "\f"} -> ScanError("Invalid control character at")
        [] c = "\\" ->
             IF At(s, i + 1) = EOF THEN ScanError("Unterminated string starting at")
             ELSE IF IsEscape(At(s, i + 1))
             THEN ScanString(s, i + 2, Append(acc, Unescape(At(s, i + 1))))
             ELSE ScanError("Invalid \\escape")
        [] OTHER -> ScanString(s, i + 1, Append(acc, c))

RECURSIVE scan_once(_, _)
RECURSIVE JSONObjectMembers(_, _, _, _)
RECURSIVE JSONArrayElements(_, _, _)

\* JSONObject after the opening brace.
JSONObject(s, i) ==
  LET j == SkipWs(s, i)
  IN  IF At(s, j) = "}" THEN Scanned(JDict(<< >>, << >>), j + 1)
      ELSE IF At(s, j) # "\""
      THEN ScanError("Expecting property name enclosed in double quotes")
      ELSE JSONObjectMembers(s, j + 1, << >>, << >>)

\* One "key": value pair, i after the key's opening quote, then the rest.
JSONObjectMembers(s, i, keys, vals) ==
  LET key == ScanString(s, i, << >>)
      j   == SkipWs(s, key.end)
      v   == scan_once(s, SkipWs(s, j + 1))
      e   == SkipWs(s, v.end)
      n   == SkipWs(s, e + 1)
  IN  IF ~key.ok THEN key
      ELSE IF At(s, j) # ":" THEN ScanError("Expecting ':' delimiter")
      ELSE IF ~v.ok THEN v
      ELSE IF At(s, e) = "}"
      THEN Scanned(JDict(Append(keys, key.val.s), Append(vals, v.val)), e + 1)
      ELSE IF At(s, e) # "," THEN ScanError("Expecting ',' delimiter")
      ELSE IF At(s, n) # "\""
      THEN ScanError("Expecting property name enclosed in double quotes")
      ELSE JSONObjectMembers(s, n + 1, Append(keys, key.val.s), Append(vals, v.val))

\* JSONArray after the opening bracket.
JSONArray(s, i) ==
  LET j == SkipWs(s, i)
  IN  IF At(s, j) = "]" THEN Scanned(JList(<< >>), j + 1)
      ELSE JSONArrayElements(s, j, << >>)

JSONArrayElements(s, i, items) ==
  LET v == scan_once(s, i)
      e == SkipWs(s, v.end)
  IN  IF ~v.ok THEN v
      ELSE IF At(s, e) = "]" THEN Scanned(JList(Append(items, v.val)), e + 1)
      ELSE IF At(s, e) # "," THEN ScanError("Expecting ',' delimiter")
      ELSE JSONArrayElements(s, SkipWs(s, e + 1), Append(items, v.val))

\* json.scanner.py_make_scanner's _scan_once.  The decoder's default
\* parse_constant accepts NaN, Infinity and -Infinity.
scan_once(s, i) ==
  LET c == At(s, i)
  IN  CASE c = EOF -> ScanError("Expecting value")
        [] c = "\"" -> ScanString(s, i + 1, << >>)
        [] c = "{" -> JSONObject(s, i + 1)
        [] c = "[" -> JSONArray(s, i + 1)
        [] c = "n" /\ Matches(s, i, Lit_null) -> Scanned(JNone, i + 4)
        [] c = "t" /\ Matches(s, i, Lit_true) -> Scanned(JBool(TRUE), i + 4)
        [] c = "f" /\ Matches(s, i, Lit_false) -> Scanned(JBool(FALSE), i + 5)
        [] NumberMatch(s, i).int_end # 0 -> ScanNumber(s, i)
        [] c = "N" /\ Matches(s, i, Lit_NaN) -> Scanned(JFloat(Lit_NaN), i + 3)
        [] c = "I" /\ Matches(s, i, Lit_Infinity) -> Scanned(JFloat(Lit_Infinity), i + 8)
        [] c = "-" /\ Matches(s, i, Lit_NegInfinity) -> Scanned(JFloat(Lit_NegInfinity), i + 9)
        [] OTHER -> ScanError("Expecting value")

\* json.loads(s): one value, whitespace around it, nothing after it.  The
\* result is the value, or the JSONDecodeError's message (its line and column
\* suffix left out).
json_loads(s) ==
  LET v == scan_once(s, SkipWs(s, 1))
  IN  IF ~v.ok THEN v
      ELSE IF SkipWs(s, v.end) # Len(s) + 1 THEN ScanError("Extra data")
      ELSE v

\* ------------------------------------------------------ pydantic models

MinMcq == 1
MaxMcq == 50

\* A request model whose le=50 was left out.
DiagnosticTestRequestNoUpperBound(body) == body.number_of_mcq >= MinMcq

\* DiagnosticTestRequest: number_of_mcq is Field(..., ge=1, le=50); the three
\* text fields are required.
DiagnosticTestRequestValid(body) ==
  /\ body.number_of_mcq >= MinMcq
  /\ body.number_of_mcq <= MaxMcq

\* A str field takes a JSON string.
StrOk(v) == v.k = "str"

\* An int field takes a JSON integer, a bool, or (lax mode) a string of
\* digits with an optional sign.
IsIntText(s) ==
  LET ds == IF s # << >> /\ Head(s) \in {"-", "+"} THEN Tail(s) ELSE s
  IN  ds # << >> /\ \A i \in 1..Len(ds) : IsDigit(ds[i])
IntOk(v) == v.k \in {"int", "bool"} \/ (v.k = "str" /\ IsIntText(v.s))
IntVal(v) ==
  IF v.k = "str"
  THEN (IF Head(v.s) = "-" THEN -1 ELSE 1)
         * Atoi(IF Head(v.s) \in {"-", "+"} THEN Tail(v.s) ELSE v.s)
  ELSE v.n

K_questions == <<"q", "u", "e", "s", "t", "i", "o", "n", "s">>
K_question_number == <<"q", "u", "e", "s", "t", "i", "o", "n", "_", "n", "u", "m", "b", "e", "r">>
K_question == <<"q", "u", "e", "s", "t", "i", "o", "n">>
K_options == <<"o", "p", "t", "i", "o", "n", "s">>
K_correct_answer == <<"c", "o", "r", "r", "e", "c", "t", "_", "a", "n", "s", "w", "e", "r">>
K_explanation == <<"e", "x", "p", "l", "a", "n", "a", "t", "i", "o", "n">>
K_option == <<"o", "p", "t", "i", "o", "n">>
K_text == <<"t", "e", "x", "t">>

\* A required field: the key is there and its value passes.
StrField(d, key) == HasKey(d, key) /\ StrOk(Lookup(d, key))
IntField(d, key) == HasKey(d, key) /\ IntOk(Lookup(d, key))

\* MCQOption: option: str, text: str.
MCQOptionOk(v) ==
  /\ v.k = "dict"
  /\ StrField(v, K_option)
  /\ StrField(v, K_text)

MCQOption(v) == [option |-> Lookup(v, K_option).s, text |-> Lookup(v, K_text).s]

\* options: List[MCQOption], a list of any length.
OptionsOk(v) == v.k = "list" /\ \A i \in 1..Len(v.items) : MCQOptionOk(v.items[i])

\* MCQQuestion: question_number: int, question: str, options:
\* List[MCQOption], correct_answer: str, explanation: str.
MCQQuestionOk(v) ==
  /\ v.k = "dict"
  /\ IntField(v, K_question_number)
  /\ StrField(v, K_question)
  /\ HasKey(v, K_options) /\ OptionsOk(Lookup(v, K_options))
  /\ StrField(v, K_correct_answer)
  /\ StrField(v, K_explanation)

MCQQuestion(v) ==
  [question_number |-> IntVal(Lookup(v, K_question_number)),
   question |-> Lookup(v, K_question).s,
   options |-> [i \in 1..Len(Lookup(v, K_options).items) |->
                  MCQOption(Lookup(v, K_options).items[i])],
   correct_answer |-> Lookup(v, K_correct_answer).s,
   explanation |-> Lookup(v, K_explanation).s]

\* questions: List[MCQQuestion]
QuestionsOk(v) == v.k = "list" /\ \A i \in 1..Len(v.items) : MCQQuestionOk(v.items[i])

\* total_questions counted from the questions returned.
TotalQuestionsCounted(request, questions) == Len(questions.items)

\* Line 145: total_questions is the request's number_of_mcq.
TotalQuestions(request, questions) == request.number_of_mcq

\* Lines 141-147: the response model, built from the request and the decoded
\* questions.
DiagnosticTestResponse(request, questions) ==
  [course_name |-> request.course_name,
   subject |-> request.subject,
   target_grade_level |-> request.target_grade_level,
   total_questions |-> TotalQuestions(request, questions),
   questions |-> [i \in 1..Len(questions.items) |-> MCQQuestion(questions.items[i])]]

\* ----------------------------------------------------------- exceptions

\* An exception: its type, str(e), and for an HTTPException its status code
\* and detail.
Exc(type, msg) == [type |-> type, msg |-> msg, status_code |-> 0, detail |-> ""]
NoExc == Exc("", "")

StatusText(status_code) ==
  CASE status_code = 500 -> "500" [] status_code = 422 -> "422" [] OTHER -> "200"

\* HTTPException(status_code, detail); str(e) is "<status_code>: <detail>".
HTTPException(status_code, detail) ==
  [type |-> "HTTPException", msg |-> StatusText(status_code) \o ": " \o detail,
   status_code |-> status_code, detail |-> detail]

\* The request body failed validation, before the handler is called.
RequestValidationError ==
  [type |-> "RequestValidationError", msg |-> "number_of_mcq", status_code |-> 422,
   detail |-> "number_of_mcq: input out of range"]

\* A handler with the catch-all clause only.
ExceptClausesCatchAllOnly(e) == HTTPException(500, "Error generating test: " \o e.msg)

\* Lines 151-154: what leaves the handler for an exception raised in its try
\* block.  An HTTPException raised inside is an Exception too.
ExceptClauses(e) ==
  IF e.type = "JSONDecodeError"
  THEN HTTPException(500, "Failed to parse GPT response: " \o e.msg)
  ELSE HTTPException(500, "Error generating test: " \o e.msg)

\* test_data["questions"]: the value under the key, or the exception the
\* subscript raises.
SubscriptError(test_data, key) ==
  CASE test_data.k = "dict" -> Exc("KeyError", "'questions'")
    [] test_data.k = "list" ->
         Exc("TypeError", "list indices must be integers or slices, not str")
    [] test_data.k = "str" ->
         Exc("TypeError", "string indices must be integers, not 'str'")
    [] OTHER -> Exc("TypeError", "'" \o test_data.k \o "' object is not subscriptable")

SubscriptOk(test_data, key) == test_data.k = "dict" /\ HasKey(test_data, key)

ValidationError == Exc("ValidationError", "validation error for DiagnosticTestResponse")

\* ---------------------------------------------------------- environment

\* os.environ's entry for OPENAI_API_KEY: absent, or present with a value.
EnvUnset == [present |-> FALSE, value |-> ""]
EnvSet(v) == [present |-> TRUE, value |-> v]
Environs == {EnvUnset, EnvSet(""), EnvSet("sk-test")}

\* os.getenv("OPENAI_API_KEY"): None when absent.
os_getenv(env) == [is_none |-> ~env.present, value |-> env.value]

\* bool(api_key): None and "" are false.
Truthy(api_key) == ~api_key.is_none /\ api_key.value # ""

\* A credential check that tests `api_key is None`, so that an empty value passes.
get_openai_client_raises_on_none_only(env) == os_getenv(env).is_none

\* Lines 16-20.
get_openai_client_raises(env) == ~Truthy(os_getenv(env))

\* A health check that reports `api_key is not None`.
health_check_presence_only(env) ==
  [status |-> "healthy", openai_configured |-> ~os_getenv(env).is_none]

\* Lines 59-66.
health_check(env) ==
  [status |-> "healthy", openai_configured |-> Truthy(os_getenv(env))]

\* Lines 78-112: the prompt, as the pieces the f-string joins.
Prompt(request) ==
  <<"Course Name: ", request.course_name,
    "Subject: ", request.subject,
    "Target Grade/Level: ", request.target_grade_level,
    "Number of MCQ Questions: ", request.number_of_mcq,
    "Generate ", request.number_of_mcq, " multiple-choice questions">>

\* ------------------------------------------- the stubbed completion API

\* Longest questions array a stubbed completion holds.
MaxQuestions == 2

Quote(s) == <<"\"">> \o s \o <<"\"">>
Member(key, value) == Quote(key) \o <<":">> \o value

RECURSIVE JoinComma(_)
JoinComma(parts) ==
  IF parts = << >> THEN << >>
  ELSE IF Len(parts) = 1 THEN parts[1]
  ELSE parts[1] \o <<",">> \o JoinComma(Tail(parts))

Object(members) == <<"{">> \o JoinComma(members) \o <<"}">>
Array(items) == <<"[">> \o JoinComma(items) \o <<"]">>

Letters == <<"A", "B", "C", "D", "E">>
OptionJson(i) ==
  Object(<<Member(K_option, Quote(<<Letters[i]>>)), Member(K_text, Quote(<<"T">>))>>)
OptionsJson(n) == Array([i \in 1..n |-> OptionJson(i)])

\* The shapes a generated question can have: as the prompt asks, or off it.
QuestionVariants ==
  {"as_asked", "three_options", "five_options", "no_options", "no_explanation",
   "null_question", "number_as_string", "options_not_a_list"}

\* One question object in the prompt's format (lines 96-107), number num.
QuestionJson(variant, num) ==
  LET number == Member(K_question_number,
                       IF variant = "number_as_string" THEN Quote(<<Digits[num + 1]>>)
                       ELSE <<Digits[num + 1]>>)
      question == Member(K_question,
                         IF variant = "null_question" THEN Lit_null ELSE Quote(<<"Q">>))
      options == Member(K_options,
                        CASE variant = "three_options" -> OptionsJson(3)
                          [] variant = "five_options" -> OptionsJson(5)
                          [] variant = "no_options" -> OptionsJson(0)
                          [] variant = "options_not_a_list" -> Quote(<<"A">>)
                          [] OTHER -> OptionsJson(4))
      answer == Member(K_correct_answer, Quote(<<"A">>))
      explanation == Member(K_explanation, Quote(<<"E">>))
  IN  Object(IF variant = "no_explanation"
             THEN <<number, question, options, answer>>
             ELSE <<number, question, options, answer, explanation>>)

\* {"questions": [...]} with n questions, the last of the given variant and
\* the ones before it as asked.
TestJson(n, last) ==
  Object(<<Member(K_questions,
                  Array([i \in 1..n |->
                           QuestionJson(IF i = n THEN last ELSE "as_asked", i)]))>>)

Sorry ==
  <<"S", "o", "r", "r", "y", ",", " ", "I", " ", "c", "a", "n", "'", "t", " ",
    "h", "e", "l", "p", " ", "w", "i", "t", "h", " ", "t", "h", "a", "t", ".">>

\* Completion texts without fences: tests of every length and variant, JSON
\* of another shape, and text that is no JSON.
BareCompletions ==
  {TestJson(0, "as_asked")}
    \cup {TestJson(n, v) : n \in 1..MaxQuestions, v \in QuestionVariants}
    \cup {Object(<< >>), Array(<< >>), Quote(K_questions), Lit_NaN,
          Object(<<Member(K_questions, <<"5">>)>>)}
    \cup {Sorry, << >>, <<"{">> \o Quote(K_questions) \o <<":", "[">>}

\* The model's habit of fencing its answer.
Fenced(open, text) == open \o <<"\n">> \o text \o <<"\n">> \o Fence

Completions ==
  BareCompletions
    \cup {Fenced(FenceJson, t) : t \in BareCompletions}
    \cup {Fenced(Fence, t) : t \in BareCompletions}

\* A few completions for runs with several requests in flight.
FewCompletions ==
  {TestJson(1, "as_asked"), Fenced(FenceJson, TestJson(0, "as_asked")), Sorry}

\* What client.chat.completions.create can do (lines 115-123): raise, or
\* return a response whose first choice holds the text (or None).
ApiRaises(e) == [raises |-> TRUE, exc |-> e, is_none |-> FALSE, text |-> << >>]
ApiReturns(text) == [raises |-> FALSE, exc |-> NoExc, is_none |-> FALSE, text |-> text]
ApiReturnsNone == [raises |-> FALSE, exc |-> NoExc, is_none |-> TRUE, text |-> << >>]
NoApiResult == [raises |-> FALSE, exc |-> NoExc, is_none |-> TRUE, text |-> <<"?">>]

UpstreamErrors ==
  {Exc("APIConnectionError", "Connection error."),
   Exc("RateLimitError", "Error code: 429")}

ApiOutcomes(pool) ==
  {ApiRaises(e) : e \in UpstreamErrors} \cup {ApiReturnsNone}
    \cup {ApiReturns(t) : t \in pool}

\* ---------------------------------------------------------------- state

Requests == {"r1", "r2"}
SoloRequests == {"r1"}

Courses == {"Intro to Statistics", "Algebra I"}
McqChoices == {MinMcq - 1, MinMcq, MinMcq + 1, MaxMcq, MaxMcq + 1}

RequestBodies ==
  [course_name : Courses, subject : {"Statistics"},
   target_grade_level : {"undergraduate"}, number_of_mcq : McqChoices]

FewBodies ==
  {[course_name |-> "Intro to Statistics", subject |-> "Statistics",
    target_grade_level |-> "undergraduate", number_of_mcq |-> MinMcq],
   [course_name |-> "Algebra I", subject |-> "Mathematics",
    target_grade_level |-> "grade 9", number_of_mcq |-> MinMcq + 1],
   [course_name |-> "Algebra I", subject |-> "Mathematics",
    target_grade_level |-> "grade 9", number_of_mcq |-> MinMcq - 1]}

NoBody == [course_name |-> "", subject |-> "", target_grade_level |-> "", number_of_mcq |-> 0]
NoResult == [built |-> FALSE]
NoResponse == [status |-> 0, detail |-> "", body |-> NoResult]
NoHealth == [status |-> "", openai_configured |-> FALSE]

\* GET /health calls a run makes.
MaxHealthCalls == 2

VARIABLES
  environ,      \* the process environment's OPENAI_API_KEY
  pc,           \* per request: the stage it runs next
  request,      \* per request: the body posted
  prompt,       \* per request: the prompt built
  completion,   \* per request: what the completion API call did
  content,      \* per request: the completion text, as cleaned so far
  test_data,    \* per request: the decoded JSON
  result,       \* per request: the DiagnosticTestResponse built
  exc,          \* per request: the exception on its way out
  response,     \* per request: the HTTP response sent
  trace,        \* per request: the stages entered, in order
  calls,        \* per request: completion API invocations
  sent,         \* per request: HTTP responses sent
  health,       \* the last GET /health answer
  health_calls, \* GET /health calls so far
  sample        \* the cleaner's harness: a drawn text and what became of it

reqvars ==
  <<pc, request, prompt, completion, content, test_data, result, exc, response,
    trace, calls, sent>>
vars == <<environ, reqvars, health, health_calls, sample>>

\* A handler that reads the request from a module-level variable, which the
\* other request in flight has overwritten.
RequestFromGlobal(r) ==
  IF \E q \in DOMAIN request : q # r /\ pc[q] # "idle"
  THEN request[CHOOSE q \in DOMAIN request : q # r /\ pc[q] # "idle"]
  ELSE request[r]

\* The handler's `request` parameter: the body of the call it serves.
Request(r) == request[r]

\* A handler that calls the completion API again when the call fails.
OnFailureRetryInvoke(stage) == IF stage = "Invoke" THEN "Invoke" ELSE "Respond"

\* Where a request goes when a stage fails: the except clauses raise, and the
\* response is sent.  Nothing is tried again.
OnFailure(stage) == "Respond"

Enter(r, stage) == trace' = [trace EXCEPT ![r] = Append(@, stage)]
Goto(r, stage) == pc' = [pc EXCEPT ![r] = stage]

\* An exception raised inside the handler's try block (lines 73-154).
Raise(r, stage, e) ==
  /\ exc' = [exc EXCEPT ![r] = ExceptClauses(e)]
  /\ Goto(r, OnFailure(stage))

\* ------------------------------------------------- POST /generate-test

\* A client posts a body.
Submit(r, body) ==
  /\ pc[r] = "idle"
  /\ request' = [request EXCEPT ![r] = body]
  /\ Goto(r, "Validate")
  /\ UNCHANGED <<environ, prompt, completion, content, test_data, result, exc,
                 response, trace, calls, sent, health, health_calls, sample>>

\* The framework builds the DiagnosticTestRequest before it calls the handler
\* (lines 23-27, 69); a body that does not validate is answered 422.
Validate(r) ==
  /\ pc[r] = "Validate"
  /\ Enter(r, "Validate")
  /\ IF DiagnosticTestRequestValid(Request(r))
     THEN Goto(r, "GetClient") /\ exc' = exc
     ELSE /\ exc' = [exc EXCEPT ![r] = RequestValidationError]
          /\ Goto(r, "Respond")
  /\ UNCHANGED <<environ, request, prompt, completion, content, test_data, result,
                 response, calls, sent, health, health_calls, sample>>

\* Line 75: client = get_openai_client().
GetClient(r) ==
  /\ pc[r] = "GetClient"
  /\ Enter(r, "GetClient")
  /\ IF get_openai_client_raises(environ)
     THEN Raise(r, "GetClient", HTTPException(500, "OpenAI API key not configured"))
     ELSE Goto(r, "BuildPrompt") /\ exc' = exc
  /\ UNCHANGED <<environ, request, prompt, completion, content, test_data, result,
                 response, calls, sent, health, health_calls, sample>>

\* Lines 78-112.
BuildPrompt(r) ==
  /\ pc[r] = "BuildPrompt"
  /\ Enter(r, "BuildPrompt")
  /\ prompt' = [prompt EXCEPT ![r] = Prompt(Request(r))]
  /\ Goto(r, "Invoke")
  /\ UNCHANGED <<environ, request, completion, content, test_data, result, exc,
                 response, calls, sent, health, health_calls, sample>>

\* Lines 115-123: the one call to the completion API, which answers with any
\* of the outcomes of the pool.
Invoke(r, pool) ==
  /\ pc[r] = "Invoke"
  /\ Enter(r, "Invoke")
  /\ calls' = [calls EXCEPT ![r] = @ + 1]
  /\ \E outcome \in ApiOutcomes(pool) :
       /\ completion' = [completion EXCEPT ![r] = outcome]
       /\ IF outcome.raises
          THEN Raise(r, "Invoke", outcome.exc)
          ELSE Goto(r, "Clean") /\ exc' = exc
  /\ UNCHANGED <<environ, request, prompt, content, test_data, result, response,
                 sent, health, health_calls, sample>>

\* Lines 126-135: response.choices[0].message.content, stripped and cleaned
\* of its fences.
Clean(r) ==
  /\ pc[r] = "Clean"
  /\ Enter(r, "Clean")
  /\ IF completion[r].is_none
     THEN /\ Raise(r, "Clean",
                   Exc("AttributeError", "'NoneType' object has no attribute 'strip'"))
          /\ content' = content
     ELSE /\ content' = [content EXCEPT ![r] = CleanContent(completion[r].text)]
          /\ Goto(r, "Parse") /\ exc' = exc
  /\ UNCHANGED <<environ, request, prompt, completion, test_data, result, response,
                 calls, sent, health, health_calls, sample>>

\* Line 138: test_data = json.loads(content).
Parse(r) ==
  /\ pc[r] = "Parse"
  /\ Enter(r, "Parse")
  /\ LET decoded == json_loads(content[r])
     IN  IF decoded.ok
         THEN /\ test_data' = [test_data EXCEPT ![r] = decoded.val]
              /\ Goto(r, "Assemble") /\ exc' = exc
         ELSE /\ Raise(r, "Parse", Exc("JSONDecodeError", decoded.err))
              /\ test_data' = test_data
  /\ UNCHANGED <<environ, request, prompt, completion, content, result, response,
                 calls, sent, health, health_calls, sample>>

\* Lines 141-149: test_data["questions"], then the response model.
Assemble(r) ==
  /\ pc[r] = "Assemble"
  /\ Enter(r, "Assemble")
  /\ IF ~SubscriptOk(test_data[r], K_questions)
     THEN Raise(r, "Assemble", SubscriptError(test_data[r], K_questions)) /\ result' = result
     ELSE IF ~QuestionsOk(Lookup(test_data[r], K_questions))
     THEN Raise(r, "Assemble", ValidationError) /\ result' = result
     ELSE /\ result' = [result EXCEPT ![r] =
                          DiagnosticTestResponse(Request(r), Lookup(test_data[r], K_questions))]
          /\ Goto(r, "Respond") /\ exc' = exc
  /\ UNCHANGED <<environ, request, prompt, completion, content, test_data, response,
                 calls, sent, health, health_calls, sample>>

\* The framework sends the handler's return value as 200, or the exception
\* that left it as an error with its status code and detail.
Respond(r) ==
  /\ pc[r] = "Respond"
  /\ Enter(r, "Respond")
  /\ response' = [response EXCEPT ![r] =
                    IF exc[r] # NoExc
                    THEN [status |-> exc[r].status_code, detail |-> exc[r].detail,
                          body |-> NoResult]
                    ELSE [status |-> 200, detail |-> "", body |-> result[r]]]
  /\ sent' = [sent EXCEPT ![r] = @ + 1]
  /\ Goto(r, "done")
  /\ UNCHANGED <<environ, request, prompt, completion, content, test_data, result,
                 exc, calls, health, health_calls, sample>>

\* ----------------------------------------------------------- GET /health

HealthCheck ==
  /\ health_calls < MaxHealthCalls
  /\ health' = health_check(environ)
  /\ health_calls' = health_calls + 1
  /\ UNCHANGED <<environ, reqvars, sample>>

\* ------------------------------------------------------ specifications

NoSample ==
  [stage |-> "none", base |-> << >>, lead |-> << >>, trail |-> 0, raw |-> << >>,
   cleaned |-> << >>, again |-> << >>, decoded |-> ScanError("")]

InitRequests ==
  /\ pc = [r \in Requests |-> "idle"]
  /\ request = [r \in Requests |-> NoBody]
  /\ prompt = [r \in Requests |-> << >>]
  /\ completion = [r \in Requests |-> NoApiResult]
  /\ content = [r \in Requests |-> << >>]
  /\ test_data = [r \in Requests |-> JNone]
  /\ result = [r \in Requests |-> NoResult]
  /\ exc = [r \in Requests |-> NoExc]
  /\ response = [r \in Requests |-> NoResponse]
  /\ trace = [r \in Requests |-> << >>]
  /\ calls = [r \in Requests |-> 0]
  /\ sent = [r \in Requests |-> 0]
  /\ health = NoHealth
  /\ health_calls = 0

Init == environ \in Environs /\ InitRequests /\ sample = NoSample

\* One request and the health endpoint, against every stubbed completion.
Next ==
  \/ \E r \in SoloRequests, body \in RequestBodies : Submit(r, body)
  \/ \E r \in SoloRequests : Validate(r)
  \/ \E r \in SoloRequests : GetClient(r)
  \/ \E r \in SoloRequests : BuildPrompt(r)
  \/ \E r \in SoloRequests : Invoke(r, Completions)
  \/ \E r \in SoloRequests : Clean(r)
  \/ \E r \in SoloRequests : Parse(r)
  \/ \E r \in SoloRequests : Assemble(r)
  \/ \E r \in SoloRequests : Respond(r)
  \/ HealthCheck

Spec == Init /\ [][Next]_vars

\* Several requests in flight at once, their stages interleaved in any order.
NextConc ==
  \/ \E r \in Requests, body \in FewBodies : Submit(r, body)
  \/ \E r \in Requests : Validate(r)
  \/ \E r \in Requests : GetClient(r)
  \/ \E r \in Requests : BuildPrompt(r)
  \/ \E r \in Requests : Invoke(r, FewCompletions)
  \/ \E r \in Requests : Clean(r)
  \/ \E r \in Requests : Parse(r)
  \/ \E r \in Requests : Assemble(r)
  \/ \E r \in Requests : Respond(r)
  \/ HealthCheck

SpecConc == Init /\ [][NextConc]_vars

\* ------------------------------------------------ the cleaner, on its own

\* Most fence markers drawn on either side of a text, and the longest run of
\* whitespace drawn around it.
MaxFences == 2
MaxPad == 1

RECURSIVE Concat(_)
Concat(parts) == IF parts = << >> THEN << >> ELSE Head(parts) \o Concat(Tail(parts))

RECURSIVE Repeat(_, _)
Repeat(text, n) == IF n = 0 THEN << >> ELSE text \o Repeat(text, n - 1)

SeqsUpTo(S, n) == UNION {[1..k -> S] : k \in 0..n}

Pads == SeqsUpTo({" ", "\n"}, MaxPad)
Separators == {<< >>, <<"\n">>, <<" ">>}
LeadingMarkers == SeqsUpTo({FenceJson, Fence}, MaxFences)

\* Texts a completion may hold between its fences: JSON and other text.
Bases ==
  {TestJson(0, "as_asked"), Object(<< >>), Array(<<<<"1">>>>), Quote(Fence), Lit_NaN,
   <<"5">>, Sorry, <<"j", "s", "o", "n">>, << >>, <<Backtick>>}

\* A raw completion text: padding, the opening markers, the text, the
\* closing markers, padding.
RawText(pad_l, lead, sep, base, trail, pad_r) ==
  pad_l \o Concat(lead) \o sep \o base \o sep \o Repeat(Fence, trail) \o pad_r

Drawn(pad_l, lead, sep, base, trail, pad_r) ==
  [stage |-> "drawn", base |-> base, lead |-> lead, trail |-> trail,
   raw |-> RawText(pad_l, lead, sep, base, trail, pad_r),
   cleaned |-> << >>, again |-> << >>, decoded |-> ScanError("")]

InitClean ==
  /\ environ = EnvUnset
  /\ InitRequests
  /\ \E pad_l \in Pads, pad_r \in Pads, sep \in Separators, base \in Bases,
        lead \in LeadingMarkers, trail \in 0..MaxFences :
       sample = Drawn(pad_l, lead, sep, base, trail, pad_r)

\* Lines 126-135 applied to the drawn text.
CleanSample ==
  /\ sample.stage = "drawn"
  /\ sample' = [sample EXCEPT !.stage = "cleaned", !.cleaned = CleanContent(sample.raw)]
  /\ UNCHANGED <<environ, reqvars, health, health_calls>>

\* The cleaner applied to its own output.
CleanSampleAgain ==
  /\ sample.stage = "cleaned"
  /\ sample' = [sample EXCEPT !.stage = "cleaned twice",
                              !.again = CleanContent(sample.cleaned)]
  /\ UNCHANGED <<environ, reqvars, health, health_calls>>

\* Line 138 applied to the cleaned text.
DecodeSample ==
  /\ sample.stage = "cleaned twice"
  /\ sample' = [sample EXCEPT !.stage = "decoded", !.decoded = json_loads(sample.cleaned)]
  /\ UNCHANGED <<environ, reqvars, health, health_calls>>

NextClean == CleanSample \/ CleanSampleAgain \/ DecodeSample

SpecClean == InitClean /\ [][NextClean]_vars

\* ------------------------------------------------------------ properties

Done(r) == pc[r] = "done"
Entered(r, stage) == \E i \in 1..Len(trace[r]) : trace[r][i] = stage
InRange(n) == n \in 1..50
KeyMissing == ~environ.present \/ environ.value = ""

\* The json decoder's messages, and the details the decode-specific clause
\* can give.
DecoderMessages ==
  {"Expecting value", "Extra data", "Unterminated string starting at",
   "Invalid control character at", "Invalid \\escape",
   "Expecting property name enclosed in double quotes",
   "Expecting ':' delimiter", "Expecting ',' delimiter"}
DecodeDetails == {"Failed to parse GPT response: " \o m : m \in DecoderMessages}

\* C1: a request with number_of_mcq = n in 1..50 that ends in a success
\* response has total_questions = n, whatever the length of the questions
\* array the completion held.
C1_TotalQuestionsIsRequested ==
  \A r \in Requests :
    (Done(r) /\ response[r].status = 200) =>
      /\ InRange(request[r].number_of_mcq)
      /\ response[r].body.total_questions = request[r].number_of_mcq

\* A success response with more questions than were asked for.
C1_Witness ==
  \E r \in Requests :
    /\ Done(r) /\ response[r].status = 200
    /\ Len(response[r].body.questions) > request[r].number_of_mcq

\* C2: a request whose number_of_mcq is outside 1..50 is answered 422, the
\* completion API is never invoked for it, and no stage but the validation
\* (not the credential lookup either) runs before the response.
C2_OutOfRangeRejectedBeforeAnyCall ==
  \A r \in Requests :
    (pc[r] # "idle" /\ ~InRange(request[r].number_of_mcq)) =>
      /\ calls[r] = 0
      /\ trace[r] \in {<< >>, <<"Validate">>, <<"Validate", "Respond">>}
      /\ Done(r) => (response[r].status = 422 /\ response[r].body = NoResult)

\* number_of_mcq = 51 answered 422.
C2_Witness ==
  \E r \in Requests :
    Done(r) /\ request[r].number_of_mcq = 51 /\ response[r].status = 422

\* C3: with the credential absent or empty a valid request ends at once in
\* HTTP 500 with one fixed detail, which no failed completion call gives;
\* the completion API is not invoked and nothing is retried.
C3_MissingCredentialFailsAtOnce ==
  \A r \in Requests :
    /\ (pc[r] # "idle" /\ KeyMissing) => calls[r] = 0
    /\ (Done(r) /\ KeyMissing /\ InRange(request[r].number_of_mcq)) =>
         /\ response[r] = [status |-> 500,
                           detail |-> "Error generating test: 500: OpenAI API key not configured",
                           body |-> NoResult]
         /\ trace[r] = <<"Validate", "GetClient", "Respond">>
    /\ (Done(r) /\ completion[r].raises) =>
         /\ response[r].status = 500
         /\ response[r].detail # "Error generating test: 500: OpenAI API key not configured"

\* A valid request answered 500 because the credential is set but empty.
C3_Witness ==
  \E r \in Requests :
    /\ Done(r) /\ environ = EnvSet("") /\ InRange(request[r].number_of_mcq)
    /\ response[r].status = 500

\* Whether a decoded value holds NaN, Infinity or -Infinity, which RFC 8259
\* JSON has not.
RECURSIVE HasConstant(_)
HasConstant(v) ==
  \/ v.k = "float" /\ v.s \in {Lit_NaN, Lit_Infinity, Lit_NegInfinity}
  \/ \E i \in 1..Len(v.items) : HasConstant(v.items[i])

\* Valid JSON: the decoder takes it, and it holds none of the constants the
\* decoder takes beyond JSON.
ValidJson(text) ==
  LET decoded == json_loads(text) IN decoded.ok /\ ~HasConstant(decoded.val)

\* C4 as stated: whenever the cleaned text is not valid JSON the request ends
\* in HTTP 500 with the decode-specific detail and no response is built.
C4_NotValidJsonGivesDecodeError ==
  \A r \in Requests :
    (Done(r) /\ Entered(r, "Parse") /\ ~ValidJson(content[r])) =>
      /\ response[r].status = 500
      /\ response[r].detail \in DecodeDetails
      /\ result[r] = NoResult

\* C4, amended: whenever the decoder rejects the cleaned text the request
\* ends in HTTP 500 with the decode-specific detail, which no other failure
\* gives, and no response is built.
C4_DecoderRejectionGivesDecodeError ==
  \A r \in Requests :
    /\ (Done(r) /\ Entered(r, "Parse") /\ ~json_loads(content[r]).ok) =>
         /\ response[r].status = 500
         /\ response[r].detail \in DecodeDetails
         /\ response[r].body = NoResult /\ result[r] = NoResult
    /\ (Done(r) /\ completion[r].raises) => response[r].detail \notin DecodeDetails

\* The refusal, which is no JSON, answered with the decoder's message.
C4_Witness ==
  \E r \in Requests :
    /\ Done(r) /\ content[r] = Sorry
    /\ response[r].detail = "Failed to parse GPT response: Expecting value"

\* At most one leading marker removed.
RemoveOneLeadingFence(text) ==
  IF startswith(text, FenceJson) THEN SliceFrom(text, 7)
  ELSE IF startswith(text, Fence) THEN SliceFrom(text, 3)
  ELSE text

\* C5: the cleaner removes one leading marker (```json or ```), one trailing
\* ``` and the whitespace around them, and nothing else.
C5_RemovesOneMarkerEachSide ==
  sample.stage \in {"cleaned", "cleaned twice", "decoded"} =>
    sample.cleaned = strip(RemoveTrailingFence(RemoveOneLeadingFence(strip(sample.raw))))

\* The shape the claim C7 holds a question to: every field there, each of its
\* JSON type, exactly four options.
ClaimedOption(v) ==
  /\ v.k = "dict"
  /\ HasKey(v, K_option) /\ Lookup(v, K_option).k = "str"
  /\ HasKey(v, K_text) /\ Lookup(v, K_text).k = "str"
ClaimedQuestion(v) ==
  /\ v.k = "dict"
  /\ HasKey(v, K_question_number) /\ Lookup(v, K_question_number).k = "int"
  /\ HasKey(v, K_question) /\ Lookup(v, K_question).k = "str"
  /\ HasKey(v, K_correct_answer) /\ Lookup(v, K_correct_answer).k = "str"
  /\ HasKey(v, K_explanation) /\ Lookup(v, K_explanation).k = "str"
  /\ HasKey(v, K_options) /\ Lookup(v, K_options).k = "list"
  /\ Len(Lookup(v, K_options).items) = 4
  /\ \A i \in 1..Len(Lookup(v, K_options).items) :
       ClaimedOption(Lookup(v, K_options).items[i])

\* C7: a question with a missing field, a wrong-typed field or an options
\* list not of length 4 makes the request fail with HTTP 500, its detail not
\* the decode-specific one, and no success response.
C7_ShapeMismatchFails ==
  \A r \in Requests :
    (/\ Done(r) /\ Entered(r, "Assemble")
     /\ SubscriptOk(test_data[r], K_questions)
     /\ Lookup(test_data[r], K_questions).k = "list"
     /\ \E i \in 1..Len(Lookup(test_data[r], K_questions).items) :
          ~ClaimedQuestion(Lookup(test_data[r], K_questions).items[i]))
    => /\ response[r].status = 500
       /\ response[r].detail \notin DecodeDetails
       /\ response[r].body = NoResult

\* C8: GET /health answers "healthy" with openai_configured false exactly
\* when the credential is absent or empty, as it is at the call, invokes no
\* completion and changes nothing else.
C8_HealthReportsCredentialOnly ==
  [][health_calls' # health_calls =>
       /\ health' = [status |-> "healthy", openai_configured |-> ~KeyMissing]
       /\ UNCHANGED <<environ, reqvars, sample>>]_vars

\* /health answered false for an empty credential while a request is in flight.
C8_Witness ==
  /\ health_calls > 0 /\ environ = EnvSet("") /\ health.status = "healthy"
  /\ ~health.openai_configured
  /\ \E r \in Requests : pc[r] = "GetClient"

Pipeline ==
  <<"Validate", "GetClient", "BuildPrompt", "Invoke", "Clean", "Parse", "Assemble",
    "Respond">>

\* C9: the stages of a request are entered in the pipeline's order, none
\* twice, a failure going straight to the response; the completion API is
\* invoked at most once; the request ends with one response, 200 only when
\* every stage ran, else 422 (validation) or 500 with a detail.
C9_LinearPipeline ==
  \A r \in Requests :
    /\ \E k \in 0..7 :
         \/ trace[r] = SubSeq(Pipeline, 1, k)
         \/ k >= 1 /\ trace[r] = Append(SubSeq(Pipeline, 1, k), "Respond")
    /\ calls[r] <= 1
    /\ sent[r] = (IF Done(r) THEN 1 ELSE 0)
    /\ exc[r] # NoExc => pc[r] \in {"Respond", "done"}
    /\ Done(r) =>
         /\ trace[r][Len(trace[r])] = "Respond"
         /\ response[r].status \in {200, 422, 500}
         /\ response[r].status = 200 <=> exc[r] = NoExc
         /\ response[r].status = 200 =>
              (trace[r] = Pipeline /\ response[r].body = result[r] /\ result[r] # NoResult)
         /\ response[r].status = 422 <=> trace[r] = <<"Validate", "Respond">>
         /\ response[r].status # 200 =>
              (response[r].detail # "" /\ response[r].body = NoResult /\ result[r] = NoResult)

\* A failed completion call answered 500 without a later stage or a second call.
C9_Witness ==
  \E r \in Requests :
    /\ Done(r) /\ response[r].status = 500 /\ calls[r] = 1
    /\ trace[r] = <<"Validate", "GetClient", "BuildPrompt", "Invoke", "Respond">>

\* What the framework sends for an exception, and for a returned model.
ErrorResponse(e) == [status |-> e.status_code, detail |-> e.detail, body |-> NoResult]

\* The response a request gets when it runs alone: a function of its body,
\* the credential and the outcome of its own completion call.
RunAlone(body, env, outcome) ==
  IF ~(body.number_of_mcq >= 1 /\ body.number_of_mcq <= 50)
  THEN ErrorResponse(RequestValidationError)
  ELSE IF ~env.present \/ env.value = ""
  THEN ErrorResponse(ExceptClauses(HTTPException(500, "OpenAI API key not configured")))
  ELSE IF outcome.raises THEN ErrorResponse(ExceptClauses(outcome.exc))
  ELSE IF outcome.is_none
  THEN ErrorResponse(ExceptClauses(
         Exc("AttributeError", "'NoneType' object has no attribute 'strip'")))
  ELSE LET decoded == json_loads(CleanContent(outcome.text))
       IN  IF ~decoded.ok
           THEN ErrorResponse(ExceptClauses(Exc("JSONDecodeError", decoded.err)))
           ELSE IF ~SubscriptOk(decoded.val, K_questions)
           THEN ErrorResponse(ExceptClauses(SubscriptError(decoded.val, K_questions)))
           ELSE IF ~QuestionsOk(Lookup(decoded.val, K_questions))
           THEN ErrorResponse(ExceptClauses(ValidationError))
           ELSE [status |-> 200, detail |-> "",
                 body |-> [course_name |-> body.course_name,
                           subject |-> body.subject,
                           target_grade_level |-> body.target_grade_level,
                           total_questions |-> body.number_of_mcq,
                           questions |->
                             [i \in 1..Len(Lookup(decoded.val, K_questions).items) |->
                                MCQQuestion(Lookup(decoded.val, K_questions).items[i])]]]

\* C10: with requests in flight together, under every interleaving, each
\* response is the one its request gets when run alone.
C10_ResponseAsIfAlone ==
  \A r \in Requests :
    Done(r) => response[r] = RunAlone(request[r], environ, completion[r])

\* Two requests with different bodies, both answered 200, and a health call.
C10_Witness ==
  \E r, q \in Requests :
    /\ r # q /\ Done(r) /\ Done(q) /\ health_calls > 0
    /\ response[r].status = 200 /\ response[q].status = 200
    /\ request[r].course_name # request[q].course_name

\* A text fenced once, or not at all.
FencedOnce(s) ==
  \/ s.lead = << >> /\ s.trail = 0
  \/ s.lead \in {<<FenceJson>>, <<Fence>>} /\ s.trail = 1

\* C6: for a JSON text J, cleaning J, J in a ```json fence and J in a bare
\* ``` fence give the same text; cleaning that text again changes nothing;
\* so the decoded value is the same in every case.
C6_FenceInsensitiveAndIdempotent ==
  (json_loads(sample.base).ok /\ FencedOnce(sample)) =>
    /\ sample.stage \in {"cleaned", "cleaned twice", "decoded"} =>
         sample.cleaned = CleanContent(sample.base)
    /\ sample.stage \in {"cleaned twice", "decoded"} => sample.again = sample.cleaned
    /\ sample.stage = "decoded" =>
         (sample.decoded.ok /\ sample.decoded = json_loads(sample.base))

\* {"questions":[]} in a bare fence, cleaned twice and decoded.
C6_Witness ==
  /\ sample.stage = "decoded" /\ sample.lead = <<Fence>> /\ sample.trail = 1
  /\ sample.base = TestJson(0, "as_asked") /\ sample.decoded.ok

====
